---- MODULE Spec2Model ----
(***************************************************************************)
(* Model of python/scripts/bulk-extract/bulk-extract.py: the recursive     *)
(* archive locator (find_archives), the extraction dispatcher              *)
(* (extract_archive, extract_zip, extract_7z), the per-directory pipeline  *)
(* (bulk_extract), the batch runner (run_batch) and main.                  *)
(*                                                                         *)
(* A file name is a sequence of one-character strings, a path is a         *)
(* sequence of names (pathlib's parts).  The file system is the set of     *)
(* existing directories, the set of existing regular files, the            *)
(* directories whose listing raises PermissionError, the zip files that    *)
(* are corrupt and the output directories that received extracted files.   *)
(* The files an extraction writes are not part of the tree that is walked. *)
(* The outcome of the 7z backend for an archive, of unlink() and of the     *)
(* probe for a 7z executable are inputs of the steps that use them; a      *)
(* KeyboardInterrupt may arrive before any step.                           *)
(***************************************************************************)
EXTENDS Integers, Sequences, FiniteSets, TLC

\* ------------------------------------------------------------------ bounds
\* largest --max-depth value drawn for a run
MaxDepthArg == 2
\* largest number of entries of a batch file
MaxEntries == 2

\* ------------------------------------------------- names, paths, constants
\* None where a path (or a list) is expected; falsy like the empty string
NoPath == <<>>
\* None where a depth is expected
NoDepth == -1
\* None where a log file name is expected
NoLog == "none"
\* a log file that can be opened, and one that cannot
GoodLog == "ok.log"
BadLog == "bad.log"

\* code points of the characters used in names (str comparison order)
CharCode(c) ==
    CASE c = "." -> 46
      [] c = "7" -> 55
      [] c = "I" -> 73
      [] c = "P" -> 80
      [] c = "Z" -> 90
      [] c = "a" -> 97
      [] c = "b" -> 98
      [] c = "c" -> 99
      [] c = "d" -> 100
      [] c = "e" -> 101
      [] c = "g" -> 103
      [] c = "i" -> 105
      [] c = "n" -> 110
      [] c = "o" -> 111
      [] c = "p" -> 112
      [] c = "r" -> 114
      [] c = "x" -> 120
      [] c = "z" -> 122
      [] OTHER -> 0

\* str.lower() on one character
LowerChar(c) ==
    CASE c = "I" -> "i"
      [] c = "P" -> "p"
      [] c = "Z" -> "z"
      [] OTHER -> c

\* str.lower()
lower(s) == [k \in 1..Len(s) |-> LowerChar(s[k])]

\* str.endswith(ext)
endswith(s, ext) ==
    /\ Len(ext) <= Len(s)
    /\ SubSeq(s, Len(s) - Len(ext) + 1, Len(s)) = ext

\* str.rfind("."), 1-based; 0 when there is no dot
RFindDot(s) ==
    LET ks == {k \in 1..Len(s) : s[k] = "."}
    IN IF ks = {} THEN 0 ELSE CHOOSE k \in ks : \A j \in ks : j <= k

\* PurePath.name: the last part
PathName(p) == p[Len(p)]

\* PurePath.parent
PathParent(p) == SubSeq(p, 1, Len(p) - 1)

\* PurePath.suffix: from the last dot, unless the dot leads or ends the name
PathSuffix(p) ==
    LET n == PathName(p)
        k == RFindDot(n)
    IN IF 1 < k /\ k < Len(n) THEN SubSeq(n, k, Len(n)) ELSE <<>>

\* PurePath.stem: the name without its suffix
PathStem(p) ==
    LET n == PathName(p)
        k == RFindDot(n)
    IN IF 1 < k /\ k < Len(n) THEN SubSeq(n, 1, k - 1) ELSE n

\* str.__lt__: lexicographic by code point
RECURSIVE StrLess(_, _)
StrLess(s, t) ==
    IF t = <<>> THEN FALSE
    ELSE IF s = <<>> THEN TRUE
    ELSE IF s[1] # t[1] THEN CharCode(s[1]) < CharCode(t[1])
    ELSE StrLess(Tail(s), Tail(t))

\* PurePath.__lt__: lexicographic on the parts
RECURSIVE PathLess(_, _)
PathLess(p, q) ==
    IF q = <<>> THEN FALSE
    ELSE IF p = <<>> THEN TRUE
    ELSE IF p[1] # q[1] THEN StrLess(p[1], q[1])
    ELSE PathLess(Tail(p), Tail(q))

\* sorted(found_files)
RECURSIVE sorted(_)
sorted(S) ==
    IF S = {} THEN <<>>
    ELSE LET m == CHOOSE x \in S : \A y \in S \ {x} : PathLess(x, y)
         IN <<m>> \o sorted(S \ {m})

\* the extensions every run looks for
base_extensions == << <<".", "z", "i", "p">>, <<".", "Z", "I", "P">>,
                      <<".", "7", "z">>, <<".", "7", "Z">> >>

\* the --include-extensions value ".rar" after split(',') and strip()
RarExtensions == << <<".", "r", "a", "r">> >>

\* the extensions a run looks for
get_supported_extensions(include_extensions) ==
    IF include_extensions # NoPath
    THEN base_extensions \o include_extensions
    ELSE base_extensions

\* None where the path of an executable is expected; falsy like ""
NoExe == ""
\* a caller-supplied --7zip-path, and an executable found on PATH only
CustomExe == "/opt/7z/7z"
SnapExe == "/snap/bin/7z"
\* _detect_7zip: common_paths when os.name is not 'nt'
common_paths == <<"/usr/bin/7z", "/usr/local/bin/7z", "/opt/local/bin/7z">>

\* what happens when a candidate is tested: os.path.exists() is false,
\* subprocess.run returns (with exit code 0 or not), raises TimeoutExpired,
\* or raises another OSError (PermissionError for a file that cannot be
\* executed)
ProbeOutcomes == {"missing", "exits_zero", "exits_nonzero", "timeout",
                  "os_error"}

\* the paths an executable may be found at
ExePaths == {CustomExe, SnapExe} \cup {common_paths[k] : k \in 1..3}

\* _detect_7zip: paths_to_check
paths_to_check(custom_path, path_executable) ==
    (IF custom_path # NoExe THEN <<custom_path>> ELSE <<>>)
       \o common_paths
       \o (IF path_executable # NoExe THEN <<path_executable>> ELSE <<>>)

\* _test_7zip_executable raises: the error of subprocess.run is none of
\* TimeoutExpired, SubprocessError, FileNotFoundError
test_raises(outcome) == outcome = "os_error"

\* _test_7zip_executable returns True
test_passes(outcome) == outcome \in {"exits_zero", "exits_nonzero"}

\* _detect_7zip: the loop over paths_to_check from position k, after the
\* candidates of probed were tested; outcomes: the outcome for each path
RECURSIVE probe_from(_, _, _, _)
probe_from(paths, k, outcomes, tested) ==
    IF k > Len(paths)
    THEN [method |-> "none", zip_executable |-> NoExe, probed |-> tested,
          raised |-> FALSE]
    ELSE IF test_raises(outcomes[paths[k]])
    THEN [method |-> "unset", zip_executable |-> NoExe,
          probed |-> Append(tested, paths[k]), raised |-> TRUE]
    ELSE IF test_passes(outcomes[paths[k]])
    THEN [method |-> "executable", zip_executable |-> paths[k],
          probed |-> Append(tested, paths[k]), raised |-> FALSE]
    ELSE probe_from(paths, k + 1, outcomes, Append(tested, paths[k]))

\* detection that only prefers the library when no path was supplied
detect_7zip_custom_first(library, custom_path, path_executable, outcomes) ==
    IF library /\ custom_path = NoExe
    THEN [method |-> "py7zr", zip_executable |-> NoExe, probed |-> <<>>,
          raised |-> FALSE]
    ELSE probe_from(paths_to_check(custom_path, path_executable), 1,
                    outcomes, <<>>)

\* SevenZipHandler._detect_7zip
detect_7zip(library, custom_path, path_executable, outcomes) ==
    IF library
    THEN [method |-> "py7zr", zip_executable |-> NoExe, probed |-> <<>>,
          raised |-> FALSE]
    ELSE probe_from(paths_to_check(custom_path, path_executable), 1,
                    outcomes, <<>>)

\* names of the directory trees the runs are drawn from
Root == << <<"r">> >>
DirD == Root \o << <<"d">> >>
DirDD == DirD \o << <<"d">> >>
DirE == Root \o << <<"e">> >>
OutDir == << <<"o">> >>
NowhereDir == << <<"n">> >>
GoneDir == << <<"g">> >>
NameAZip == <<"a", ".", "z", "i", "p">>
NameA == <<"a">>
NameB7z == <<"b", ".", "7", "z">>
NameCZIP == <<"c", ".", "Z", "I", "P">>
NameCZip == <<"c", ".", "z", "i", "p">>
NameXRar == <<"x", ".", "r", "a", "r">>
FileAZip == Root \o <<NameAZip>>
FileA == Root \o <<NameA>>
FileB7z == DirD \o <<NameB7z>>
FileCZIP == DirDD \o <<NameCZIP>>
FileDCZip == DirD \o <<NameCZip>>
FileEAZip == DirE \o <<NameAZip>>
FileEXRar == DirE \o <<NameXRar>>
\* the archive that a nested archive holds, as extracted from r/a.zip
InnerName == NameCZip
FileACZip == Root \o <<NameA, InnerName>>

VARIABLES
    args,           \* the parsed command line
    batch_exists,   \* whether the --batch-config file exists
    extractions,    \* the entries of the batch file
    has_py7zr,      \* HAS_PY7ZR: whether py7zr could be imported
    env7z,          \* the installed 7z executables: the outcome of testing each
                    \* path, and the result of shutil.which("7z")
    dirs,           \* existing directories
    files,          \* existing regular files
    noperm,         \* directories whose listing raises PermissionError
    corrupt,        \* zip files that raise BadZipFile
    nested,         \* archives that hold an archive named InnerName
    extracted,      \* output directories that received extracted files
    pc,             \* position of the program
    call,           \* the arguments of the running bulk_extract call
    method,         \* seven_zip_handler.method of the running call
    zip_executable, \* seven_zip_handler.zip_executable of the running call
    probed,         \* the candidates _detect_7zip tested in the running call
    archive_files,  \* bulk_extract: the located archives
    idx,            \* bulk_extract: index of the archive being processed
    success_count,  \* bulk_extract: archives processed successfully
    total_files,    \* bulk_extract: len(archive_files)
    results,        \* bulk_extract: the value of success for each archive so far
    dispatched,     \* bulk_extract: for each archive so far, its output
                    \* directory, the function it was handed to and the
                    \* backend that was invoked
    entry,          \* run_batch: index i of the entry being processed
    total_success,  \* run_batch: sum of the success counts
    batch_total,    \* run_batch: its total_files, the sum of the totals
    file_handler,   \* log file of the 'bulk_extract' logger, NoLog if console only
    log,            \* messages logged about archives and directories
    run_log,        \* messages of the run: entries, summaries, main's prints
    exit_code,      \* value returned by main, -1 while running
    checker         \* graylog_checker.py: its arguments, the outcome each
                    \* test has, its position, results and return value

vars == <<args, batch_exists, extractions, has_py7zr, env7z, dirs, files,
          noperm, corrupt, nested, extracted, pc, call, method,
          zip_executable,
          probed, dispatched, archive_files, idx,
          success_count, total_files, results, entry, total_success,
          batch_total,
          file_handler, log, run_log, exit_code, checker>>

fs == <<dirs, files, noperm, corrupt, nested, extracted>>
handler_vars == <<method, zip_executable, probed>>
bulk_vars == <<call, handler_vars, archive_files, idx, success_count,
               total_files, results, dispatched>>
batch_vars == <<entry, total_success, batch_total>>
input_vars == <<args, batch_exists, extractions, has_py7zr, env7z>>
extract_vars == <<input_vars, fs, pc, bulk_vars, batch_vars, file_handler,
                  log, run_log, exit_code>>

\* ------------------------------------------------------------ file system
\* Path.exists()
exists(p) == p \in dirs \/ p \in files

\* Path.is_dir()
is_dir(p) == p \in dirs

\* Path.is_file()
is_file(p) == p \in files

\* Path.iterdir() of a directory that can be listed
iterdir(p) ==
    {q \in dirs \cup files : Len(q) = Len(p) + 1 /\ SubSeq(q, 1, Len(p)) = p}

\* search_recursive stopping one level early (>= for >)
RECURSIVE search_recursive_early(_, _, _, _)
search_recursive_early(current_path, current_depth, extensions, max_depth) ==
    IF max_depth # NoDepth /\ current_depth >= max_depth THEN {}
    ELSE IF current_path \in noperm THEN {}
    ELSE LET items == iterdir(current_path)
         IN {item \in items :
                /\ is_file(item)
                /\ \E k \in 1..Len(extensions) :
                      endswith(PathName(item), extensions[k])}
            \cup UNION {search_recursive_early(item, current_depth + 1,
                                                extensions, max_depth) :
                        item \in {d \in items : ~is_file(d) /\ is_dir(d)}}

\* find_archives.search_recursive: the files appended to found_files
RECURSIVE search_recursive(_, _, _, _)
search_recursive(current_path, current_depth, extensions, max_depth) ==
    IF max_depth # NoDepth /\ current_depth > max_depth THEN {}
    ELSE IF current_path \in noperm THEN {}
    ELSE LET items == iterdir(current_path)
         IN {item \in items :
                /\ is_file(item)
                /\ \E k \in 1..Len(extensions) :
                      endswith(PathName(item), extensions[k])}
            \cup UNION {search_recursive(item, current_depth + 1,
                                          extensions, max_depth) :
                        item \in {d \in items : ~is_file(d) /\ is_dir(d)}}

\* find_archives.search_recursive: the directories a warning is logged for
RECURSIVE search_warnings(_, _, _)
search_warnings(current_path, current_depth, max_depth) ==
    IF max_depth # NoDepth /\ current_depth > max_depth THEN {}
    ELSE IF current_path \in noperm THEN {current_path}
    ELSE UNION {search_warnings(item, current_depth + 1, max_depth) :
                item \in {d \in iterdir(current_path) :
                             ~is_file(d) /\ is_dir(d)}}

\* find_archives with the PermissionError caught around the whole walk
find_archives_fatal(directory_path, extensions, max_depth) ==
    IF search_warnings(directory_path, 0, max_depth) # {} THEN <<>>
    ELSE sorted(search_recursive(directory_path, 0, extensions, max_depth))

\* find_archives returning found_files in an order other than sorted()
find_archives_unsorted(directory_path, extensions, max_depth) ==
    LET found == sorted(search_recursive(directory_path, 0, extensions,
                                         max_depth))
    IN [k \in 1..Len(found) |-> found[Len(found) + 1 - k]]

\* find_archives
find_archives(directory_path, extensions, max_depth) ==
    sorted(search_recursive(directory_path, 0, extensions, max_depth))

\* ------------------------------------------------------------------ inputs
\* the options of one bulk_extract call
CallRecord(directory, output_dir, max_depth, include_extensions, dry_run, remove_archives) ==
    [directory |-> directory, output_dir |-> output_dir,
     max_depth |-> max_depth, include_extensions |-> include_extensions,
     dry_run |-> dry_run, remove_archives |-> remove_archives]

\* no bulk_extract call is running
NoCall == CallRecord(NoPath, NoPath, NoDepth, NoPath, FALSE, FALSE)

DepthArgs == {NoDepth} \cup (0..MaxDepthArg)

\* command lines of the single-path mode
SingleArgs ==
    {[path |-> r.directory, batch_config |-> FALSE, log_file |-> NoLog,
      output_dir |-> r.output_dir, max_depth |-> r.max_depth,
      include_extensions |-> r.include_extensions, dry_run |-> r.dry_run,
      remove_archives |-> r.remove_archives, seven_zip_path |-> NoExe] :
       r \in {CallRecord(Root, o, m, x, d, rm) :
                 o \in {NoPath, OutDir, NowhereDir}, m \in DepthArgs,
                 x \in {NoPath, RarExtensions}, d \in BOOLEAN,
                 rm \in BOOLEAN}
             \cup {CallRecord(p, NoPath, NoDepth, NoPath, FALSE, FALSE) :
                      p \in {NoPath, GoneDir, FileAZip}}}

\* command lines of the batch mode
BatchArgs ==
    {[path |-> p, batch_config |-> TRUE, log_file |-> NoLog,
      output_dir |-> NoPath, max_depth |-> NoDepth,
      include_extensions |-> NoPath, dry_run |-> d,
      remove_archives |-> FALSE, seven_zip_path |-> NoExe] :
       <<p, d>> \in {<<NoPath, FALSE>>, <<Root, TRUE>>}}

\* one entry of the 'extractions' list of a batch file
EntryRecord(path, output_dir, max_depth, dry_run, remove_archives, log_file) ==
    [path |-> path, output_dir |-> output_dir, max_depth |-> max_depth,
     include_extensions |-> NoPath, dry_run |-> dry_run,
     remove_archives |-> remove_archives, log_file |-> log_file,
     seven_zip_path |-> NoExe]

\* the entries batch files are made of
BatchEntries ==
    {EntryRecord(NoPath, NoPath, NoDepth, FALSE, FALSE, NoLog),
     EntryRecord(GoneDir, NoPath, NoDepth, FALSE, FALSE, NoLog),
     EntryRecord(Root, NoPath, NoDepth, FALSE, FALSE, NoLog),
     EntryRecord(Root, NoPath, NoDepth, FALSE, TRUE, NoLog),
     EntryRecord(Root, NoPath, 0, TRUE, TRUE, NoLog),
     EntryRecord(Root, NowhereDir, NoDepth, FALSE, FALSE, NoLog),
     EntryRecord(Root, NoPath, NoDepth, FALSE, FALSE, GoodLog),
     EntryRecord(Root, NoPath, NoDepth, FALSE, FALSE, BadLog),
     EntryRecord(DirD, NoPath, NoDepth, FALSE, TRUE, NoLog)}

\* the lists of at most n entries
RECURSIVE EntryLists(_)
EntryLists(n) ==
    IF n = 0 THEN {<<>>}
    ELSE LET shorter == EntryLists(n - 1)
         IN shorter \cup {Append(l, e) : l \in shorter, e \in BatchEntries}

\* the installed 7z executables: which of the paths exit when run, which
\* cannot be executed, the others missing; found: shutil.which("7z")
Env7z(working, broken, found) ==
    [outcomes |-> [p \in ExePaths |-> IF p \in working THEN "exits_zero"
                                      ELSE IF p \in broken THEN "os_error"
                                      ELSE "missing"],
     which |-> found]

\* the installations the runs are drawn from: py7zr, no 7z at all,
\* /usr/bin/7z on PATH, and a /usr/local/bin/7z that cannot be executed
Installed ==
    {<<TRUE, Env7z({}, {}, NoExe)>>,
     <<FALSE, Env7z({}, {}, NoExe)>>,
     <<FALSE, Env7z({common_paths[1]}, {}, common_paths[1])>>,
     <<FALSE, Env7z({}, {common_paths[2]}, NoExe)>>}

\* graylog_checker.py is not running
NoChecker ==
    [pc |-> "idle", config |-> "none", verbose |-> FALSE, output |-> "none",
     passes |-> {}, loaded |-> FALSE, results |-> <<>>,
     detailed_results |-> <<>>, report |-> "none", exit_code |-> -1]

\* the directory tree a run starts from
TreeDirs(d, dd, e) ==
    {Root, OutDir} \cup (IF d # "absent" THEN {DirD} ELSE {})
       \cup (IF dd THEN {DirDD} ELSE {})
       \cup (IF e # "absent" THEN {DirE} ELSE {})

TreeFiles(azip, aplain, d, dc, dd, e) ==
    (IF azip # "absent" THEN {FileAZip} ELSE {})
       \cup (IF aplain THEN {FileA} ELSE {})
       \cup (IF d # "absent" THEN {FileB7z} ELSE {})
       \cup (IF dc THEN {FileDCZip} ELSE {})
       \cup (IF dd THEN {FileCZIP} ELSE {})
       \cup (IF e = "both" THEN {FileEAZip} ELSE {})
       \cup (IF e # "absent" THEN {FileEXRar} ELSE {})

Init ==
    /\ \E azip \in {"absent", "good", "corrupt", "nested"},
          aplain \in BOOLEAN,
          d \in {"absent", "listable", "noperm"}, dc \in BOOLEAN,
          dd \in BOOLEAN, e \in {"absent", "both", "rar"},
          rootperm \in BOOLEAN :
          /\ dd => d # "absent"
          /\ dc => d = "listable" /\ azip # "absent" /\ ~dd /\ e = "absent"
          /\ e = "rar" => d = "absent"
          /\ rootperm => d # "noperm" /\ ~dd /\ ~dc /\ e = "absent"
          /\ aplain => ~dc /\ e # "rar" /\ ~rootperm
          /\ azip = "nested" => /\ ~aplain /\ ~dc /\ ~dd /\ ~rootperm
                                /\ d # "noperm" /\ e = "absent"
          /\ dirs = TreeDirs(d, dd, e)
          /\ files = TreeFiles(azip, aplain, d, dc, dd, e)
          /\ noperm = (IF d = "noperm" THEN {DirD} ELSE {})
                         \cup (IF rootperm THEN {Root} ELSE {})
          /\ corrupt = (IF azip = "corrupt" THEN {FileAZip} ELSE {})
                          \cup (IF dc THEN {FileDCZip} ELSE {})
          /\ nested = IF azip = "nested" THEN {FileAZip} ELSE {}
          /\ \/ /\ args \in SingleArgs
                /\ batch_exists = FALSE
                /\ extractions = <<>>
             \/ /\ ~aplain /\ e = "absent" /\ ~dd /\ d # "noperm"
                /\ ~dc /\ ~rootperm
                /\ args \in BatchArgs
                /\ batch_exists \in BOOLEAN
                /\ extractions \in EntryLists(MaxEntries)
                /\ ~batch_exists => extractions = <<>>
    /\ \E installed \in Installed :
          /\ has_py7zr = installed[1]
          /\ env7z = installed[2]
    /\ extracted = {}
    /\ pc = "main"
    /\ call = NoCall
    /\ method = "unset"
    /\ zip_executable = NoExe
    /\ probed = <<>>
    /\ dispatched = <<>>
    /\ archive_files = <<>>
    /\ idx = 0
    /\ success_count = 0
    /\ total_files = 0
    /\ results = <<>>
    /\ entry = 0
    /\ total_success = 0
    /\ batch_total = 0
    /\ file_handler = NoLog
    /\ log = <<>>
    /\ run_log = <<>>
    /\ exit_code = -1
    /\ checker = NoChecker

\* ----------------------------------------------------------------- logging
Logged(ev, path) == [ev |-> ev, path |-> path]
EntryLogged(ev, i, success, total) ==
    [ev |-> ev, i |-> i, success |-> success, total |-> total]

\* setup_logging: FileHandler(log_file) opens the file, and raises if it cannot
setup_logging_raises(log_file) == log_file = BadLog

\* -------------------------------------------------------------------- main
\* main returns: the process exit code
MainReturns(code) ==
    /\ pc' = "done"
    /\ exit_code' = code

\* main's handler of Exception: prints the error and returns 1;
\* logged: what was logged before the exception reached main
MainExcept(logged) ==
    /\ run_log' = Append(logged, EntryLogged("main_error", 0, 0, 0))
    /\ MainReturns(1)

\* main taking the positional path before the batch file
MainStartPathFirst ==
    /\ pc = "main"
    /\ IF setup_logging_raises(args.log_file)
       THEN /\ MainExcept(run_log)
            /\ UNCHANGED <<file_handler, call>>
       ELSE /\ file_handler' = args.log_file
            /\ IF args.path = NoPath /\ args.batch_config
               THEN /\ pc' = "run_batch"
                    /\ UNCHANGED <<call, exit_code, run_log>>
               ELSE IF args.path = NoPath
               THEN /\ MainReturns(1)
                    /\ run_log' = Append(run_log,
                                        EntryLogged("no_path", 0, 0, 0))
                    /\ UNCHANGED call
               ELSE /\ call' = CallRecord(args.path, args.output_dir,
                                  args.max_depth, args.include_extensions,
                                  args.dry_run, args.remove_archives)
                    /\ pc' = "bulk_extract"
                    /\ UNCHANGED <<exit_code, run_log>>
    /\ UNCHANGED <<checker, input_vars, fs, handler_vars, archive_files, idx,
                   success_count, total_files, results, dispatched,
                   batch_vars, log>>

\* main up to the call of run_batch or bulk_extract
MainStart ==
    /\ pc = "main"
    /\ IF setup_logging_raises(args.log_file)
       THEN /\ MainExcept(run_log)
            /\ UNCHANGED <<file_handler, call>>
       ELSE /\ file_handler' = args.log_file
            /\ IF args.batch_config
               THEN /\ pc' = "run_batch"
                    /\ UNCHANGED <<call, exit_code, run_log>>
               ELSE IF args.path = NoPath
               THEN /\ MainReturns(1)
                    /\ run_log' = Append(run_log,
                                        EntryLogged("no_path", 0, 0, 0))
                    /\ UNCHANGED call
               ELSE /\ call' = CallRecord(args.path, args.output_dir,
                                  args.max_depth, args.include_extensions,
                                  args.dry_run, args.remove_archives)
                    /\ pc' = "bulk_extract"
                    /\ UNCHANGED <<exit_code, run_log>>
    /\ UNCHANGED <<checker, input_vars, fs, handler_vars, archive_files, idx,
                   success_count, total_files, results, dispatched,
                   batch_vars, log>>

\* ---------------------------------------------------------------- run_batch
\* run_batch up to the first entry
RunBatchOpen ==
    /\ pc = "run_batch"
    /\ IF ~batch_exists
       THEN /\ MainExcept(Append(run_log,
                              EntryLogged("batch_error", 0, 0, 0)))
            /\ UNCHANGED batch_vars
       ELSE IF extractions = <<>>
       THEN /\ MainReturns(0)
            /\ run_log' = Append(run_log,
                                EntryLogged("no_extractions", 0, 0, 0))
            /\ UNCHANGED batch_vars
       ELSE /\ entry' = 1
            /\ total_success' = 0
            /\ batch_total' = 0
            /\ pc' = "batch_entry"
            /\ UNCHANGED <<exit_code, run_log>>
    /\ UNCHANGED <<checker, input_vars, fs, bulk_vars, file_handler, log>>

\* run_batch: one entry up to its bulk_extract call
BatchEntry ==
    /\ pc = "batch_entry"
    /\ entry <= Len(extractions)
    /\ LET extraction == extractions[entry]
       IN IF extraction.path = NoPath
          THEN /\ run_log' = Append(run_log,
                                   EntryLogged("entry_invalid", entry, 0, 0))
               /\ entry' = entry + 1
               /\ UNCHANGED <<pc, exit_code, call, file_handler>>
          ELSE IF extraction.log_file # NoLog
                  /\ setup_logging_raises(extraction.log_file)
          THEN /\ MainExcept(Append(run_log,
                                 EntryLogged("batch_error", entry, 0, 0)))
               /\ UNCHANGED <<entry, call, file_handler>>
          ELSE /\ file_handler' = IF extraction.log_file # NoLog
                                  THEN extraction.log_file
                                  ELSE file_handler
               /\ call' = CallRecord(extraction.path, extraction.output_dir,
                             extraction.max_depth,
                             extraction.include_extensions,
                             extraction.dry_run, extraction.remove_archives)
               /\ pc' = "bulk_extract"
               /\ UNCHANGED <<entry, exit_code, run_log>>
    /\ UNCHANGED <<checker, input_vars, fs, handler_vars, archive_files, idx,
                   success_count, total_files, results, dispatched,
                   total_success, batch_total, log>>

\* run_batch after the last entry, and main's return
BatchFinish ==
    /\ pc = "batch_entry"
    /\ entry > Len(extractions)
    /\ run_log' = Append(run_log,
                        EntryLogged("batch_summary", 0, total_success,
                                    batch_total))
    /\ MainReturns(0)
    /\ UNCHANGED <<checker, input_vars, fs, bulk_vars, batch_vars, file_handler, log>>

\* ------------------------------------------------------------- bulk_extract
\* run_batch adding the counts of the call that raised
BulkRaisesCounted ==
    IF args.batch_config
    THEN /\ run_log' = Append(run_log,
                             EntryLogged("entry_error", entry, 0, 0))
         /\ entry' = entry + 1
         /\ pc' = "batch_entry"
         /\ total_success' = total_success + success_count
         /\ batch_total' = batch_total + total_files
         /\ UNCHANGED exit_code
    ELSE /\ MainExcept(run_log)
         /\ UNCHANGED batch_vars

\* an exception leaves bulk_extract: run_batch logs it and goes on with the
\* next entry, main returns 1
BulkRaises ==
    IF args.batch_config
    THEN /\ run_log' = Append(run_log,
                             EntryLogged("entry_error", entry, 0, 0))
         /\ entry' = entry + 1
         /\ pc' = "batch_entry"
         /\ UNCHANGED <<exit_code, total_success, batch_total>>
    ELSE /\ MainExcept(run_log)
         /\ UNCHANGED batch_vars

\* bulk_extract logs its last message and returns (success, total):
\* run_batch adds the counts and goes on with the next entry, main returns 0
BulkReturns(success, total, last_message) ==
    LET logged == Append(run_log,
                         EntryLogged(last_message, entry, success, total))
    IN IF args.batch_config
       THEN /\ total_success' = total_success + success
            /\ batch_total' = batch_total + total
            /\ run_log' = Append(logged,
                                EntryLogged("entry_done", entry, success,
                                            total))
            /\ entry' = entry + 1
            /\ pc' = "batch_entry"
            /\ UNCHANGED exit_code
       ELSE /\ MainReturns(0)
            /\ run_log' = Append(logged,
                                EntryLogged(IF success = total THEN "all_ok"
                                            ELSE "some_failed", 0, success,
                                            total))
            /\ UNCHANGED batch_vars

\* the validation that only looks for a missing path
validation_raises_if_missing(directory_path) == ~exists(directory_path)

\* bulk_extract raises FileNotFoundError or NotADirectoryError
validation_raises(directory_path) ==
    ~exists(directory_path) \/ ~is_dir(directory_path)

\* bulk_extract starting the walk without building the handler
BulkValidateThenWalk ==
    /\ pc = "bulk_extract"
    /\ IF validation_raises(call.directory)
       THEN BulkRaises
       ELSE /\ pc' = "find_archives"
            /\ UNCHANGED <<exit_code, run_log, batch_vars>>
    /\ UNCHANGED <<checker, input_vars, fs, bulk_vars, file_handler, log>>

\* bulk_extract: validation of the directory
BulkValidate ==
    /\ pc = "bulk_extract"
    /\ IF validation_raises(call.directory)
       THEN BulkRaises
       ELSE /\ pc' = "detect_7zip"
            /\ UNCHANGED <<exit_code, run_log, batch_vars>>
    /\ UNCHANGED <<checker, input_vars, fs, bulk_vars, file_handler, log>>

\* bulk_extract's parameter seven_zip_path: main passes --7zip-path,
\* run_batch the entry's '7zip_path'
seven_zip_path_of_call ==
    IF args.batch_config THEN extractions[entry].seven_zip_path
    ELSE args.seven_zip_path

\* bulk_extract: seven_zip_handler = SevenZipHandler(seven_zip_path, logger);
\* an exception of _test_7zip_executable leaves __init__ and bulk_extract
Detect7zip ==
    /\ pc = "detect_7zip"
    /\ LET detected == detect_7zip(has_py7zr, seven_zip_path_of_call,
                                   env7z.which, env7z.outcomes)
       IN /\ probed' = detected.probed
          /\ IF detected.raised
             THEN /\ BulkRaises
                  /\ UNCHANGED <<method, zip_executable>>
             ELSE /\ method' = detected.method
                  /\ zip_executable' = detected.zip_executable
                  /\ pc' = "find_archives"
                  /\ UNCHANGED <<exit_code, run_log, batch_vars>>
    /\ UNCHANGED <<checker, input_vars, fs, call, archive_files, idx, success_count,
                   total_files, results, dispatched, file_handler, log>>

\* bulk_extract: the walk, and the return when nothing was found
FindArchives ==
    /\ pc = "find_archives"
    /\ LET extensions == get_supported_extensions(call.include_extensions)
           found == find_archives(call.directory, extensions, call.max_depth)
           warned == sorted(search_warnings(call.directory, 0,
                                            call.max_depth))
       IN /\ archive_files' = found
          /\ results' = <<>>
          /\ dispatched' = <<>>
          /\ log' = log \o [k \in 1..Len(warned) |->
                               Logged("no_permission", warned[k])]
          /\ IF found = <<>>
             THEN /\ BulkReturns(0, 0, "no_archives")
                  /\ UNCHANGED <<idx, success_count, total_files>>
             ELSE /\ total_files' = Len(found)
                  /\ success_count' = 0
                  /\ idx' = 1
                  /\ pc' = "extract_archive"
                  /\ UNCHANGED <<exit_code, run_log, batch_vars>>
    /\ UNCHANGED <<checker, input_vars, fs, call, handler_vars, file_handler>>

\* ---------------------------------------------------------- extract_archive
\* the output directory placed next to the first component of the path
output_dir_of_flat(file_path, base_output_dir) ==
    IF base_output_dir # NoPath
    THEN base_output_dir \o <<PathStem(file_path)>>
    ELSE SubSeq(file_path, 1, 1) \o <<PathStem(file_path)>>

\* extract_archive: the output directory of an archive
output_dir_of(file_path, base_output_dir) ==
    IF base_output_dir # NoPath
    THEN base_output_dir \o <<PathStem(file_path)>>
    ELSE PathParent(file_path) \o <<PathStem(file_path)>>

\* Path.mkdir(exist_ok=True) raises: the path is a regular file
\* (FileExistsError) or its parent is no directory (FileNotFoundError,
\* NotADirectoryError)
mkdir_raises(p) ==
    /\ ~is_dir(p)
    /\ is_file(p) \/ ~is_dir(PathParent(p))

ExtZip == <<".", "z", "i", "p">>
Ext7z == <<".", "7", "z">>

\* what extract_zip and extract_7z log and return for an archive, the
\* function extract_archive hands it to and the backend that function calls
\* (zipfile, py7zr or the 7z executable);
\* backend_ok: whether the 7z backend extracts the archive without error
dispatch(file_path, dry_run, backend_ok) ==
    LET file_ext == lower(PathSuffix(file_path))
    IN IF file_ext = ExtZip
       THEN IF dry_run
            THEN [ok |-> TRUE, ev |-> "dry_run", extracts |-> FALSE,
                  handler |-> "extract_zip", backend |-> "none"]
            ELSE IF file_path \in corrupt
            THEN [ok |-> FALSE, ev |-> "corrupt_zip", extracts |-> FALSE,
                  handler |-> "extract_zip", backend |-> "zipfile"]
            ELSE [ok |-> TRUE, ev |-> "extracted", extracts |-> TRUE,
                  handler |-> "extract_zip", backend |-> "zipfile"]
       ELSE IF file_ext = Ext7z
       THEN IF method = "none"
            THEN [ok |-> FALSE, ev |-> "no_7z_method", extracts |-> FALSE,
                  handler |-> "extract_7z", backend |-> "none"]
            ELSE IF dry_run
            THEN [ok |-> TRUE, ev |-> "dry_run", extracts |-> FALSE,
                  handler |-> "extract_7z", backend |-> "none"]
            ELSE IF backend_ok
            THEN [ok |-> TRUE, ev |-> "extracted", extracts |-> TRUE,
                  handler |-> "extract_7z", backend |-> method]
            ELSE [ok |-> FALSE, ev |-> "extract_error", extracts |-> FALSE,
                  handler |-> "extract_7z", backend |-> method]
       ELSE [ok |-> FALSE, ev |-> "unsupported", extracts |-> FALSE,
             handler |-> "none", backend |-> "none"]

\* the output directory created in dry-run mode too
creates_output_dir_always(dry_run) == TRUE

\* extract_archive: the output directory is created unless dry-run
creates_output_dir(dry_run) == ~dry_run

\* the archive unlinked whether or not it was extracted
should_remove_failed(success, remove_archives, dry_run) ==
    remove_archives /\ ~dry_run

\* bulk_extract: whether the original archive is unlinked
should_remove(success, remove_archives, dry_run) ==
    success /\ remove_archives /\ ~dry_run

\* bulk_extract: one archive of the loop, up to its removal
ExtractArchive ==
    /\ pc = "extract_archive"
    /\ idx <= Len(archive_files)
    /\ LET archive_file == archive_files[idx]
           output_dir == output_dir_of(archive_file, call.output_dir)
       IN IF creates_output_dir(call.dry_run) /\ mkdir_raises(output_dir)
          THEN /\ BulkRaises
               /\ UNCHANGED <<fs, idx, success_count, results, dispatched,
                              log>>
          ELSE \E backend_ok \in BOOLEAN :
               LET result == dispatch(archive_file, call.dry_run, backend_ok)
               IN /\ dirs' = IF creates_output_dir(call.dry_run)
                             THEN dirs \cup {output_dir}
                             ELSE dirs
                  /\ extracted' = IF result.extracts
                                  THEN extracted \cup {output_dir}
                                  ELSE extracted
                  /\ files' = IF result.extracts /\ archive_file \in nested
                              THEN files \cup {output_dir \o <<InnerName>>}
                              ELSE files
                  /\ log' = Append(log, Logged(result.ev, archive_file))
                  /\ success_count' = IF result.ok THEN success_count + 1
                                      ELSE success_count
                  /\ results' = Append(results, result.ok)
                  /\ dispatched' =
                        Append(dispatched,
                               [path |-> archive_file,
                                output_dir |-> output_dir,
                                handler |-> result.handler,
                                backend |-> result.backend])
                  /\ IF should_remove(result.ok, call.remove_archives,
                                      call.dry_run)
                     THEN pc' = "remove_archive" /\ idx' = idx
                     ELSE pc' = "extract_archive" /\ idx' = idx + 1
                  /\ UNCHANGED <<noperm, corrupt, nested, exit_code,
                                 run_log, batch_vars>>
    /\ UNCHANGED <<checker, input_vars, call, handler_vars, archive_files,
                   total_files, file_handler>>

\* the removal with a failed unlink() taking the archive's success back
RemoveArchiveCounted ==
    /\ pc = "remove_archive"
    /\ \E unlinked \in BOOLEAN :
          /\ files' = IF unlinked THEN files \ {archive_files[idx]} ELSE files
          /\ log' = Append(log, Logged(IF unlinked THEN "removed"
                                       ELSE "remove_error",
                                       archive_files[idx]))
          /\ success_count' = IF unlinked THEN success_count
                              ELSE success_count - 1
    /\ idx' = idx + 1
    /\ pc' = "extract_archive"
    /\ UNCHANGED <<checker, input_vars, dirs, noperm, corrupt, nested, extracted,
                   call, handler_vars, archive_files, total_files,
                   results, dispatched, batch_vars, file_handler, run_log,
                   exit_code>>

\* bulk_extract: archive_file.unlink() after a successful extraction;
\* unlinked: whether unlink() returned without an error
RemoveArchive ==
    /\ pc = "remove_archive"
    /\ \E unlinked \in BOOLEAN :
          /\ files' = IF unlinked THEN files \ {archive_files[idx]} ELSE files
          /\ log' = Append(log, Logged(IF unlinked THEN "removed"
                                       ELSE "remove_error",
                                       archive_files[idx]))
    /\ idx' = idx + 1
    /\ pc' = "extract_archive"
    /\ UNCHANGED <<checker, input_vars, dirs, noperm, corrupt, nested, extracted,
                   call, handler_vars, archive_files, success_count, total_files,
                   results, dispatched, batch_vars, file_handler, run_log,
                   exit_code>>

\* bulk_extract leaving the loop after its first archive
BulkReturnEarly ==
    /\ pc = "extract_archive"
    /\ idx > 1
    /\ BulkReturns(success_count, total_files, "completed")
    /\ UNCHANGED <<checker, input_vars, fs, bulk_vars, file_handler, log>>

\* bulk_extract: the end of the loop
BulkReturn ==
    /\ pc = "extract_archive"
    /\ idx > Len(archive_files)
    /\ BulkReturns(success_count, total_files, "completed")
    /\ UNCHANGED <<checker, input_vars, fs, bulk_vars, file_handler, log>>

\* KeyboardInterrupt caught by run_batch's handler of an entry
InterruptCaughtByEntry ==
    /\ pc # "done"
    /\ IF args.batch_config /\ pc \in {"bulk_extract", "detect_7zip",
                                        "find_archives", "extract_archive",
                                        "remove_archive"}
       THEN /\ run_log' = Append(run_log,
                                 EntryLogged("entry_error", entry, 0, 0))
            /\ entry' = entry + 1
            /\ pc' = "batch_entry"
            /\ UNCHANGED <<exit_code, total_success, batch_total>>
       ELSE /\ run_log' = Append(run_log, EntryLogged("cancelled", 0, 0, 0))
            /\ MainReturns(1)
            /\ UNCHANGED batch_vars
    /\ UNCHANGED <<checker, input_vars, fs, bulk_vars, file_handler, log>>

\* KeyboardInterrupt anywhere in main: no handler but main's catches it
Interrupt ==
    /\ pc # "done"
    /\ run_log' = Append(run_log, EntryLogged("cancelled", 0, 0, 0))
    /\ MainReturns(1)
    /\ UNCHANGED <<checker, input_vars, fs, bulk_vars, batch_vars, file_handler, log>>

Next ==
    \/ MainStart
    \/ RunBatchOpen
    \/ BatchEntry
    \/ BatchFinish
    \/ BulkValidate
    \/ Detect7zip
    \/ FindArchives
    \/ ExtractArchive
    \/ RemoveArchive
    \/ BulkReturn
    \/ Interrupt

Spec == Init /\ [][Next]_vars

\* ------------------------------------------------- the 7z resolver, in full
\* every installation: an outcome for each path that is a candidate of the
\* run (the others are missing), and a result of shutil.which("7z") that
\* exists
Installations(custom_path) ==
    {env \in [outcomes : [ExePaths -> ProbeOutcomes],
              which : {NoExe, common_paths[1], SnapExe}] :
        /\ env.which # NoExe => env.outcomes[env.which] # "missing"
        /\ env.which # SnapExe => env.outcomes[SnapExe] = "missing"
        /\ custom_path = NoExe => env.outcomes[CustomExe] = "missing"}

\* single-path runs over r/a.zip and r/d/b.7z, with and without --7zip-path,
\* on every installation
InitResolver ==
    /\ dirs = TreeDirs("listable", FALSE, "absent")
    /\ files = TreeFiles("good", FALSE, "listable", FALSE, FALSE, "absent")
    /\ noperm = {}
    /\ corrupt = {}
    /\ nested = {}
    /\ \E custom_path \in {NoExe, CustomExe} :
          /\ args = [path |-> Root, batch_config |-> FALSE,
                     log_file |-> NoLog, output_dir |-> NoPath,
                     max_depth |-> NoDepth, include_extensions |-> NoPath,
                     dry_run |-> FALSE, remove_archives |-> FALSE,
                     seven_zip_path |-> custom_path]
          /\ env7z \in Installations(custom_path)
    /\ has_py7zr \in BOOLEAN
    /\ batch_exists = FALSE
    /\ extractions = <<>>
    /\ extracted = {}
    /\ pc = "main"
    /\ call = NoCall
    /\ method = "unset"
    /\ zip_executable = NoExe
    /\ probed = <<>>
    /\ dispatched = <<>>
    /\ archive_files = <<>>
    /\ idx = 0
    /\ success_count = 0
    /\ total_files = 0
    /\ results = <<>>
    /\ entry = 0
    /\ total_success = 0
    /\ batch_total = 0
    /\ file_handler = NoLog
    /\ log = <<>>
    /\ run_log = <<>>
    /\ exit_code = -1
    /\ checker = NoChecker

NextResolver ==
    \/ MainStart
    \/ BulkValidate
    \/ Detect7zip
    \/ FindArchives
    \/ ExtractArchive
    \/ BulkReturn

SpecResolver == InitResolver /\ [][NextResolver]_vars

\* ------------------------------------------------------- graylog_checker.py
\* run_connectivity_tests: tests, by name
tests == <<"Web Interface", "OpenSearch", "Syslog UDP", "GELF UDP">>

\* the codes main returns: every test passed, otherwise, interrupted
CheckerOk == 0
CheckerFailed == 1
CheckerInterrupted == 130

\* a run of graylog_checker.py: --config names no file, a missing file, a
\* file that loads or one that does not; --output names no file, one that
\* can be written or one that cannot; passes: the tests that return True
CheckerRuns ==
    [pc : {"main"}, config : {"none", "missing", "valid", "broken"},
     verbose : BOOLEAN, output : {"none", "writable", "unwritable"},
     passes : SUBSET {tests[k] : k \in 1..Len(tests)}, loaded : {FALSE},
     results : {<<>>}, detailed_results : {<<>>}, report : {"none"},
     exit_code : {-1}]

\* main: load_config, which uses the defaults unless the file exists and
\* loads, and never raises
LoadConfig ==
    /\ checker.pc = "main"
    /\ checker' = [checker EXCEPT !.loaded = (checker.config = "valid"),
                                  !.pc = "run_connectivity_tests"]
    /\ UNCHANGED extract_vars

\* run_connectivity_tests: one iteration of the loop; the test function
\* catches every Exception and returns False
RunTest ==
    /\ checker.pc = "run_connectivity_tests"
    /\ Len(checker.results) < Len(tests)
    /\ LET test_name == tests[Len(checker.results) + 1]
           success == test_name \in checker.passes
       IN checker' = [checker EXCEPT
                        !.results = Append(@, success),
                        !.detailed_results =
                           Append(@, [test |-> test_name,
                                      success |-> success])]
    /\ UNCHANGED extract_vars

\* report status computed from the first result only
report_success_first(test_results) == test_results[1]

\* generate_report: passed == total
report_success(test_results) ==
    Cardinality({k \in 1..Len(test_results) : test_results[k]})
       = Len(test_results)

\* run_connectivity_tests returns; generate_report and main's return
GenerateReport ==
    /\ checker.pc = "run_connectivity_tests"
    /\ Len(checker.results) = Len(tests)
    /\ checker' = [checker EXCEPT
                     !.report = IF checker.output = "writable"
                                THEN (IF report_success(checker.results)
                                      THEN "SUCCESS" ELSE "PARTIAL_FAILURE")
                                ELSE "none",
                     !.exit_code = IF report_success(checker.results)
                                   THEN CheckerOk ELSE CheckerFailed,
                     !.pc = "done"]
    /\ UNCHANGED extract_vars

\* KeyboardInterrupt anywhere in main of graylog_checker.py
CheckerInterrupt ==
    /\ checker.pc \in {"main", "run_connectivity_tests"}
    /\ checker' = [checker EXCEPT !.exit_code = CheckerInterrupted,
                                  !.pc = "done"]
    /\ UNCHANGED extract_vars

\* runs of graylog_checker.py, bulk-extract.py not running
InitGraylog ==
    /\ checker \in CheckerRuns
    /\ args = [path |-> NoPath, batch_config |-> FALSE, log_file |-> NoLog,
               output_dir |-> NoPath, max_depth |-> NoDepth,
               include_extensions |-> NoPath, dry_run |-> FALSE,
               remove_archives |-> FALSE, seven_zip_path |-> NoExe]
    /\ batch_exists = FALSE
    /\ extractions = <<>>
    /\ has_py7zr = FALSE
    /\ env7z = Env7z({}, {}, NoExe)
    /\ dirs = {}
    /\ files = {}
    /\ noperm = {}
    /\ corrupt = {}
    /\ nested = {}
    /\ extracted = {}
    /\ pc = "idle"
    /\ call = NoCall
    /\ method = "unset"
    /\ zip_executable = NoExe
    /\ probed = <<>>
    /\ dispatched = <<>>
    /\ archive_files = <<>>
    /\ idx = 0
    /\ success_count = 0
    /\ total_files = 0
    /\ results = <<>>
    /\ entry = 0
    /\ total_success = 0
    /\ batch_total = 0
    /\ file_handler = NoLog
    /\ log = <<>>
    /\ run_log = <<>>
    /\ exit_code = -1

NextGraylog ==
    \/ LoadConfig
    \/ RunTest
    \/ GenerateReport
    \/ CheckerInterrupt

SpecGraylog == InitGraylog /\ [][NextGraylog]_vars

\* ------------------------------------------------------------------ claims
Elements(seq) == {seq[k] : k \in 1..Len(seq)}
IsPrefix(p, q) == Len(p) <= Len(q) /\ SubSeq(q, 1, Len(p)) = p

\* the regular files below root, in a directory of depth at most max_depth,
\* whose name ends with one of the extensions
MatchingWithin(root, extensions, max_depth) ==
    {f \in files :
        /\ IsPrefix(root, PathParent(f))
        /\ max_depth = NoDepth \/ Len(PathParent(f)) - Len(root) <= max_depth
        /\ \E k \in 1..Len(extensions) : endswith(PathName(f), extensions[k])}

\* every directory from root down to the one holding f can be listed
ListableDown(root, f) ==
    \A n \in Len(root)..(Len(f) - 1) : SubSeq(f, 1, n) \notin noperm

CallExtensions == get_supported_extensions(call.include_extensions)

\* C1 as stated: the walk returns exactly the files within the depth limit
\* whose name ends with a configured extension, whatever the tree.
C1_LocatorExactAnyTree ==
    [][FindArchives =>
         /\ Elements(archive_files') =
               MatchingWithin(call.directory, CallExtensions, call.max_depth)
         /\ Len(archive_files') = Cardinality(Elements(archive_files'))]_vars

\* C1 amended: the walk returns, once each, exactly the files within the depth
\* limit whose name ends with a configured extension and whose directory, and
\* every directory above it down from the root, can be listed.
C1_LocatorExactListable ==
    [][FindArchives =>
         /\ Elements(archive_files') =
               {f \in MatchingWithin(call.directory, CallExtensions,
                                     call.max_depth) :
                   ListableDown(call.directory, f)}
         /\ Len(archive_files') = Cardinality(Elements(archive_files'))]_vars

\* a walk limited to depth 1 returned the archive of the subdirectory and
\* left out the archive two levels down and the file without extension
C1_Witness ==
    /\ pc = "extract_archive" /\ idx = 1
    /\ call.max_depth = 1
    /\ FileB7z \in Elements(archive_files)
    /\ FileCZIP \in files /\ FileCZIP \notin Elements(archive_files)
    /\ FileA \in files /\ FileA \notin Elements(archive_files)

\* C2: with max_depth = 0 the walk locates what a walk without depth limit
\* locates.
C2_DepthZeroIsUnlimited ==
    [][(FindArchives /\ call.max_depth = 0) =>
         archive_files' = find_archives(call.directory, CallExtensions,
                                        NoDepth)]_vars

\* the subdirectories the walk tries to list and cannot
FailingSubdirs ==
    {d \in noperm :
        /\ IsPrefix(call.directory, d) /\ d # call.directory
        /\ call.max_depth = NoDepth
              \/ Len(d) - Len(call.directory) <= call.max_depth
        /\ \A n \in Len(call.directory)..(Len(d) - 1) :
              SubSeq(d, 1, n) \notin noperm}

\* C10: a subdirectory that cannot be listed is logged, contributes no entry,
\* and does not end the walk: the matching files of its ancestors and of its
\* listable sibling directories are returned and bulk_extract goes on.
C10_PermissionErrorNotFatal ==
    [][FindArchives =>
         \A d \in FailingSubdirs :
            /\ \E k \in (Len(log) + 1)..Len(log') :
                  log'[k] = Logged("no_permission", d)
            /\ \A f \in Elements(archive_files') : ~IsPrefix(d, f)
            /\ \A f \in MatchingWithin(call.directory, CallExtensions,
                                       call.max_depth) :
                  (\/ IsPrefix(PathParent(f), PathParent(d))
                   \/ /\ PathParent(PathParent(f)) = PathParent(d)
                      /\ PathParent(f) \notin noperm)
                  => f \in Elements(archive_files')
            /\ \A k \in (Len(run_log) + 1)..Len(run_log') :
                  run_log'[k].ev
                     \notin {"main_error", "entry_error", "batch_error"}]_vars

\* a walk met an unlistable subdirectory and still returned the archives of
\* the root and of the sibling directory
C10_Witness ==
    /\ pc = "extract_archive" /\ idx = 1
    /\ DirD \in noperm /\ FileB7z \in files
    /\ FileAZip \in Elements(archive_files)
    /\ FileEAZip \in Elements(archive_files)
    /\ Logged("no_permission", DirD) \in Elements(log)

\* C3: an archive whose dispatch returned failure in a call with
\* remove_archives set still exists, up to the end of the call and after it.
C3_FailedArchiveKept ==
    call.remove_archives =>
       \A k \in 1..Len(results) : ~results[k] => archive_files[k] \in files

\* a call with remove_archives ended after one archive failed and was kept
\* and another one was extracted and removed
C3_Witness ==
    /\ pc = "done" /\ exit_code = 0
    /\ call.remove_archives /\ ~call.dry_run
    /\ \E k \in 1..Len(results) :
          ~results[k] /\ archive_files[k] \in files
    /\ \E k \in 1..Len(results) :
          results[k] /\ archive_files[k] \notin files

\* C4: whatever goes wrong with one archive, the loop goes on: the step that
\* processes an archive stays in the loop of bulk_extract, and an archive that
\* was not extracted has its error logged and is counted as failed.
C4_ArchiveFailureIsolated ==
    [][ExtractArchive =>
         /\ pc' \in {"extract_archive", "remove_archive"}
         /\ Len(results') = Len(results) + 1
         /\ success_count' = success_count
               => log'[Len(log')].ev \in {"corrupt_zip", "no_7z_method",
                                          "extract_error", "unsupported"}]_vars

\* the run ended with the return of main
Returned == pc = "done"

\* the run was interrupted
Cancelled == \E k \in 1..Len(run_log) : run_log[k].ev = "cancelled"

\* C5: main returns 0 only when nothing failed: no archive of the single
\* path, and no archive or entry of the batch.
C5_ExitCodeReflectsFailures ==
    (Returned /\ exit_code = 0) =>
       \A k \in 1..Len(run_log) :
          /\ run_log[k].ev \notin {"entry_invalid", "entry_error",
                                   "some_failed"}
          /\ run_log[k].success = run_log[k].total

\* the code main returns for failures and fatal configuration errors
FatalExitCode == 1

\* C6: an interrupted run returns a code that is neither 0 nor the code of
\* failures and fatal errors.
C6_CancelledCodeDistinct ==
    (Returned /\ Cancelled) => exit_code \notin {0, FatalExitCode}

\* the events logged for entry i of the batch
EntryEvents(i, evs) ==
    {k \in 1..Len(run_log) : run_log[k].i = i /\ run_log[k].ev \in evs}

\* C7: a batch run that is not interrupted handles every entry of the list,
\* whichever entries fail: an entry without path is reported and skipped,
\* every other entry ends once (bulk_extract returned or raised, or the entry's
\* log setup failed), and the entries are handled in list order.
C7_BatchEntriesIsolated ==
    (Returned /\ ~Cancelled /\ args.batch_config /\ batch_exists) =>
       /\ \A i \in 1..Len(extractions) :
             IF extractions[i].path = NoPath
             THEN Cardinality(EntryEvents(i, {"entry_invalid"})) = 1
             ELSE Cardinality(EntryEvents(i, {"entry_done", "entry_error",
                                              "batch_error"})) = 1
       /\ \A j, k \in 1..Len(run_log) :
             (j < k /\ run_log[j].i > 0 /\ run_log[k].i > 0)
                => run_log[j].i <= run_log[k].i

\* the sum of a count over the reports bulk_extract logged before message n
RECURSIVE ReportedSum(_, _)
ReportedSum(n, successes) ==
    IF n <= 1 THEN 0
    ELSE ReportedSum(n - 1, successes)
         + (IF run_log[n - 1].ev \in {"completed", "no_archives"}
            THEN (IF successes THEN run_log[n - 1].success
                  ELSE run_log[n - 1].total)
            ELSE 0)

\* C8: the aggregate run_batch reports is the sum of the pairs returned by the
\* bulk_extract calls that returned, and successes never exceed the total.
C8_BatchAggregate ==
    /\ total_success <= batch_total
    /\ \A k \in 1..Len(run_log) :
          run_log[k].ev = "batch_summary" =>
             /\ run_log[k].success = ReportedSum(k, TRUE)
             /\ run_log[k].total = ReportedSum(k, FALSE)
             /\ run_log[k].success <= run_log[k].total

\* a batch reported an aggregate with a failed archive after one entry was
\* skipped or raised and another one returned
C8_Witness ==
    /\ Returned /\ exit_code = 0
    /\ \E k \in 1..Len(run_log) :
          /\ run_log[k].ev = "batch_summary"
          /\ 0 < run_log[k].success
          /\ run_log[k].success < run_log[k].total
    /\ \E k \in 1..Len(run_log) : run_log[k].ev = "entry_error"
    /\ \E k \in 1..Len(run_log) : run_log[k].ev = "entry_done"

\* positions of the program inside bulk_extract
BulkPcs == {"bulk_extract", "detect_7zip", "find_archives", "extract_archive",
            "remove_archive"}

\* C9: no step of a bulk_extract call with dry_run changes the file system.
C9_DryRunNoMutation ==
    [][(call.dry_run /\ pc \in BulkPcs) => fs' = fs]_vars

\* a dry run with remove_archives went through its archives, all reported as
\* successes, and nothing was created or removed
C9_Witness ==
    /\ pc = "extract_archive" /\ idx > Len(archive_files)
    /\ call.dry_run /\ call.remove_archives
    /\ success_count >= 2
    /\ \A k \in 1..Len(archive_files) : archive_files[k] \in files
    /\ extracted = {}

\* the reports bulk_extract logs when it returns normally
NormalReports == {"no_archives", "completed"}

\* C11: when the root of a single-path run exists but cannot be listed,
\* bulk_extract reports no normal result (such as 0 of 0) and main returns a
\* non-zero code.
C11_UnreadableRootFatal ==
    (/\ Returned /\ ~Cancelled /\ ~args.batch_config
     /\ args.path # NoPath /\ is_dir(args.path) /\ args.path \in noperm)
       => /\ exit_code # 0
          /\ \A k \in 1..Len(run_log) : run_log[k].ev \notin NormalReports

\* the run was given a missing batch file, or a root that is no directory
InvalidInput ==
    \/ args.batch_config /\ ~batch_exists
    \/ ~args.batch_config /\ args.path # NoPath /\ ~is_dir(args.path)

\* C12: a run given a missing batch file, or a root that does not exist or is
\* no directory, returns a non-zero code without having probed for 7z,
\* walked, dispatched or removed anything.
C12_InvalidInputAbortsEarly ==
    (Returned /\ ~Cancelled /\ InvalidInput) =>
       /\ exit_code # 0
       /\ method = "unset" /\ probed = <<>>
       /\ archive_files = <<>> /\ idx = 0 /\ dispatched = <<>>
       /\ log = <<>> /\ extracted = {}
       /\ \A k \in 1..Len(run_log) : run_log[k].ev \notin NormalReports

\* a run whose root is an existing regular file ended with code 1 while that
\* file and the 7z executable on PATH were left alone
C12_Witness ==
    /\ Returned /\ ~Cancelled /\ ~args.batch_config
    /\ args.path = FileAZip /\ is_file(FileAZip)
    /\ env7z.which # NoExe
    /\ exit_code = 1 /\ probed = <<>>

\* C13: every construction of SevenZipHandler ends in one of the three
\* states of the resolver (library; executable, with its path; unavailable)
\* whatever the outcomes of the probes, and bulk_extract goes on to the walk.
C13_ResolverTotal ==
    [][Detect7zip =>
          /\ method' \in {"py7zr", "executable", "none"}
          /\ (method' = "executable") = (zip_executable' # NoExe)
          /\ pc' = "find_archives"]_vars

\* the archives handed to extract_7z so far
SevenZipDispatched ==
    {k \in 1..Len(dispatched) : dispatched[k].handler = "extract_7z"}

\* C14: when py7zr is importable, the resolver ends in the library state
\* without testing any candidate, whatever path was supplied and whatever is
\* installed, and every .7z archive that is extracted goes through py7zr.
C14_LibraryPreferred ==
    [][has_py7zr =>
          /\ Detect7zip => /\ method' = "py7zr"
                           /\ zip_executable' = NoExe
                           /\ probed' = <<>>
          /\ \A k \in SevenZipDispatched' :
                /\ dispatched'[k].backend # "executable"
                /\ ~call.dry_run => dispatched'[k].backend = "py7zr"]_vars

\* with py7zr importable, r/d/b.7z went through py7zr although the supplied
\* --7zip-path works and another 7z is on PATH
C14_Witness ==
    /\ has_py7zr
    /\ args.seven_zip_path = CustomExe
    /\ env7z.outcomes[CustomExe] = "exits_zero"
    /\ env7z.which = SnapExe
    /\ probed = <<>>
    /\ \E k \in SevenZipDispatched :
          dispatched[k].path = FileB7z /\ dispatched[k].backend = "py7zr"

\* the positions in paths of the candidates that exist and return when run
\* without arguments
PassingCandidates(paths) ==
    {k \in 1..Len(paths) : test_passes(env7z.outcomes[paths[k]])}

\* C15: when py7zr is not importable, the resolver selects the first
\* candidate, in the order supplied path, platform defaults, PATH lookup,
\* that exists and returns when run; it is unavailable exactly when no
\* candidate does.
C15_FirstWorkingCandidate ==
    [][(Detect7zip /\ ~has_py7zr) =>
          LET paths == paths_to_check(seven_zip_path_of_call, env7z.which)
              passing == PassingCandidates(paths)
          IN IF passing = {}
             THEN method' = "none" /\ zip_executable' = NoExe
             ELSE /\ method' = "executable"
                  /\ \E k \in passing :
                        /\ zip_executable' = paths[k]
                        /\ \A j \in passing : k <= j]_vars

\* the archive of the running step of the loop, and its lower-cased suffix
CurrentArchive == archive_files[idx]
CurrentSuffix == lower(PathSuffix(CurrentArchive))

\* the step handled the current archive and went on to the next one
\* without removing anything: ev was logged for it, it was handed to
\* handler, no backend was called and it was counted as a failure
FailedWithoutBackend(ev, handler) ==
    /\ Len(log') = Len(log) + 1
    /\ log'[Len(log')] = Logged(ev, CurrentArchive)
    /\ Len(dispatched') = Len(dispatched) + 1
    /\ dispatched'[Len(dispatched')].path = CurrentArchive
    /\ dispatched'[Len(dispatched')].handler = handler
    /\ dispatched'[Len(dispatched')].backend = "none"
    /\ results' = Append(results, FALSE)
    /\ success_count' = success_count
    /\ extracted' = extracted /\ files' = files
    /\ pc' = "extract_archive" /\ idx' = idx + 1
    /\ exit_code' = exit_code

\* C16: while the resolver is unavailable, every .7z archive of the loop
\* fails at once: extract_7z logs the error and returns failure, no backend
\* is called, with and without dry_run, and the loop goes on.
C16_Unavailable7zFails ==
    [][(ExtractArchive /\ method = "none" /\ CurrentSuffix = Ext7z) =>
          FailedWithoutBackend("no_7z_method", "extract_7z")]_vars

\* the output directory the claims name for the current archive: the output
\* root if given, else the archive's directory, joined with its base name
ClaimedOutputDir ==
    (IF call.output_dir # NoPath THEN call.output_dir
     ELSE SubSeq(CurrentArchive, 1, Len(CurrentArchive) - 1))
       \o <<PathStem(CurrentArchive)>>

\* C17: for every archive of the loop extract_archive uses the claimed
\* output directory, which exists afterwards unless dry_run, in which case
\* no directory is created, and hands .zip to extract_zip and .7z to
\* extract_7z whatever the case of the suffix.
C17_OutputDirAndBackend ==
    [][ExtractArchive =>
          /\ Len(dispatched') = Len(dispatched) + 1
          /\ dispatched'[Len(dispatched')].output_dir = ClaimedOutputDir
          /\ IF call.dry_run THEN dirs' = dirs
             ELSE dirs' = dirs \cup {ClaimedOutputDir}
          /\ CurrentSuffix = ExtZip
                => dispatched'[Len(dispatched')].handler = "extract_zip"
          /\ CurrentSuffix = Ext7z
                => dispatched'[Len(dispatched')].handler = "extract_7z"]_vars

\* C18: a located file whose suffix is neither .zip nor .7z is skipped with
\* a warning: no backend is called, it is not counted as a success, it is not
\* removed, and the loop goes on with the next archive.
C18_UnsupportedSkipped ==
    [][(ExtractArchive /\ CurrentSuffix \notin {ExtZip, Ext7z}) =>
          FailedWithoutBackend("unsupported", "none")]_vars

\* C19: an interrupt ends the run at once and for good: the step returns
\* from main with a code, and neither it nor any later step dispatches or
\* removes an archive, starts a batch entry, or undoes what the completed
\* archives left in the file system.
C19_InterruptAbortsQueue ==
    [][/\ Interrupt => /\ pc' = "done" /\ exit_code' # -1
                       /\ fs' = fs /\ log' = log
                       /\ dispatched' = dispatched /\ results' = results
                       /\ idx' = idx /\ entry' = entry
       /\ pc = "done" => UNCHANGED vars]_vars

\* a batch was interrupted in its first entry of two after the first
\* archive was extracted and removed: the second archive and the second
\* entry were never started, the extracted files and the removal remain
C19_Witness ==
    /\ Returned /\ Cancelled
    /\ args.batch_config /\ Len(extractions) = 2 /\ entry = 1
    /\ Len(archive_files) = 2 /\ idx = 2 /\ Len(dispatched) = 1
    /\ extracted = {Root \o <<NameA>>}
    /\ FileAZip \notin files /\ FileB7z \in files
    /\ \A k \in 1..Len(run_log) : run_log[k].i # 2

\* the run of the scenario: a single-path call on r without output root, with
\* max_depth 1 and no dry_run, over a tree that holds r/a.zip, r/d/b.7z and
\* the corrupt r/d/c.zip and nothing else, with a 7z backend that extracts
\* b.7z, has returned
ScenarioReturned ==
    /\ Returned /\ ~Cancelled /\ ~args.batch_config
    /\ args.path = Root /\ args.output_dir = NoPath /\ args.max_depth = 1
    /\ args.include_extensions = NoPath /\ ~args.dry_run
    /\ corrupt = {FileDCZip} /\ noperm = {}
    /\ FileA \notin files /\ DirDD \notin dirs /\ DirE \notin dirs
    /\ method \in {"py7zr", "executable"}
    /\ \A k \in 1..Len(log) : log[k].ev # "extract_error"

\* C20: the run of the scenario locates the three archives, returns 2
\* successes out of 3, has created r/a and r/d/b, and leaves the corrupt
\* archive in place, with and without remove_archives.
C20_ScenarioTwoOfThree ==
    ScenarioReturned =>
       /\ archive_files = <<FileAZip, FileB7z, FileDCZip>>
       /\ \E k \in 1..Len(run_log) :
             /\ run_log[k].ev = "completed"
             /\ run_log[k].success = 2 /\ run_log[k].total = 3
       /\ {Root \o <<NameA>>, DirD \o <<<<"b">>>>} \subseteq dirs
       /\ {Root \o <<NameA>>, DirD \o <<<<"b">>>>} \subseteq extracted
       /\ FileDCZip \in files

\* the scenario was run with remove_archives: the two extracted archives
\* were removed and the corrupt one is still there
C20_Witness ==
    /\ ScenarioReturned /\ args.remove_archives
    /\ FileAZip \notin files /\ FileB7z \notin files
    /\ FileDCZip \in files

\* C21: in every bulk_extract call the resolver runs in one step that lies
\* between the validation and the walk: the walk starts from that step only,
\* that step starts from the validation only, the handler changes in no
\* other step (so not while the archives are processed), and the candidates
\* tested are at most the supplied path, the defaults and the PATH lookup,
\* however many archives are located.
C21_ResolvedOncePerCall ==
    [][/\ handler_vars' # handler_vars => pc = "detect_7zip"
       /\ pc' = "detect_7zip" => pc \in {"bulk_extract", "detect_7zip"}
       /\ pc' = "find_archives" => pc \in {"detect_7zip", "find_archives"}
       /\ pc = "detect_7zip"
             => pc' \in {"detect_7zip", "find_archives", "batch_entry",
                         "done"}
       /\ pc' \in {"extract_archive", "remove_archive"}
             => pc \in {"find_archives", "extract_archive",
                        "remove_archive"}
       /\ Len(probed') <= Len(common_paths) + 2]_vars

\* a batch of two entries went through the archives of both with the
\* executable that the one probe of each call selected
C21_Witness ==
    /\ Returned /\ ~Cancelled /\ args.batch_config
    /\ Cardinality({k \in 1..Len(run_log) :
                       run_log[k].ev = "completed"
                          /\ run_log[k].total >= 2}) = 2
    /\ method = "executable" /\ probed = <<common_paths[1]>>
    /\ zip_executable = common_paths[1]

\* the step is a normal return of bulk_extract after its loop
LoopReturns ==
    /\ pc = "extract_archive"
    /\ Len(run_log') > Len(run_log)
    /\ run_log'[Len(run_log) + 1].ev = "completed"

\* C22: the archives a call dispatches are those of its one walk, in that
\* list's positions: the list holds no archive twice and does not change
\* while the loop runs, the k-th dispatch is the k-th located archive (so
\* none is dispatched twice or after a failure again, and none that was
\* unpacked meanwhile), and a call that returns from its loop has
\* dispatched every one of them.
C22_LocatedListFixed ==
    [][/\ pc \in {"extract_archive", "remove_archive"}
             => archive_files' = archive_files
       /\ \A j, k \in 1..Len(archive_files') :
             j # k => archive_files'[j] # archive_files'[k]
       /\ Len(dispatched') <= Len(archive_files')
       /\ \A k \in 1..Len(dispatched') :
             dispatched'[k].path = archive_files'[k]
       /\ LoopReturns => Len(dispatched) = Len(archive_files)]_vars

\* a call returned after extracting r/a.zip, whose inner archive now lies
\* in r/a, within the walk's reach and with a matching name, and was not
\* processed
C22_Witness ==
    /\ Returned /\ ~Cancelled /\ ~args.batch_config
    /\ args.max_depth = NoDepth
    /\ \E k \in 1..Len(run_log) : run_log[k].ev = "completed"
    /\ FileACZip \in files
    /\ FileACZip \in MatchingWithin(Root, CallExtensions, NoDepth)
    /\ \A k \in 1..Len(dispatched) : dispatched[k].path # FileACZip
    /\ \E k \in 1..Len(results) : ~results[k]

\* C23: the located list is strictly increasing in the order of paths, so
\* it holds no path twice; the loop takes the archives one at a time in
\* that order: the step that creates an output directory is the dispatch
\* of archive idx, made when exactly the idx - 1 earlier archives have
\* been dispatched, the step that deletes an archive deletes archive idx
\* after its dispatch and moves on to idx + 1, and no directory is created
\* while a deletion is pending.
C23_SortedOneAtATime ==
    [][/\ \A j, k \in 1..Len(archive_files') :
             j < k => PathLess(archive_files'[j], archive_files'[k])
       /\ Len(dispatched') > Len(dispatched)
             => /\ pc = "extract_archive"
                /\ Len(dispatched) = idx - 1
                /\ Len(dispatched') = idx
                /\ dispatched'[idx].path = archive_files[idx]
                /\ idx' = IF pc' = "remove_archive" THEN idx ELSE idx + 1
       /\ dirs' # dirs => Len(dispatched') > Len(dispatched)
       /\ files \ files' # {}
             => /\ pc = "remove_archive"
                /\ files \ files' = {archive_files[idx]}
                /\ Len(dispatched) = idx
                /\ idx' = idx + 1
       /\ pc = "remove_archive" => dirs' = dirs /\ extracted' = extracted]_vars

\* a walk that found r/a/c.zip and r/a.zip, in that order, has extracted
\* and deleted the first and created the output directory of the second
C23_Witness ==
    /\ pc \in {"extract_archive", "remove_archive"}
    /\ archive_files = <<FileACZip, FileAZip>>
    /\ Len(dispatched) = 2
    /\ \E k \in 1..Len(log) : log[k] = Logged("removed", FileACZip)
    /\ dispatched[1].output_dir \in extracted
    /\ dispatched[2].output_dir \in dirs

\* the number of dispatches of the running call that returned success
Successes(dispatch_results) ==
    Cardinality({k \in 1..Len(dispatch_results) : dispatch_results[k]})

\* C24: a bulk_extract call that returns reports as total the number of
\* located archives and as success count the number of dispatches that
\* returned success, with 0 <= success count <= total; a failed unlink
\* leaves the success count and the dispatch results as they are and the
\* loop goes on with the next archive.
C24_ReturnedCounts ==
    [][/\ (/\ Len(run_log') > Len(run_log)
           /\ run_log'[Len(run_log) + 1].ev \in NormalReports)
             => LET report == run_log'[Len(run_log) + 1]
                IN /\ report.total = Len(archive_files')
                   /\ report.success = Successes(results')
                   /\ Len(results') = Len(archive_files')
                   /\ 0 <= report.success
                   /\ report.success <= report.total
       /\ (/\ Len(log') > Len(log)
           /\ log'[Len(log')].ev = "remove_error")
             => /\ success_count' = success_count
                /\ results' = results
                /\ pc' = "extract_archive"
                /\ idx' = idx + 1]_vars

\* a call returned 2 of 3 although the unlink of an extracted archive
\* failed before the last archive was dispatched
C24_Witness ==
    /\ Returned /\ ~Cancelled /\ ~args.batch_config
    /\ \E k \in 1..Len(run_log) :
          /\ run_log[k].ev = "completed"
          /\ run_log[k].success = 2
          /\ run_log[k].total = 3
    /\ results = <<TRUE, FALSE, TRUE>>
    /\ \E k \in 1..Len(log) : log[k] = Logged("remove_error", archive_files[1])
    /\ archive_files[1] \in files

\* the batch entry whose bulk_extract call is running
CurrentEntry == extractions[entry]

\* C25: in batch mode, whatever the positional path, every bulk_extract
\* call walks the directory its entry names, every dispatched archive
\* lies under that directory, and a step that changes the file system is
\* the dispatch or the deletion of such an archive.
C25_BatchIgnoresRoot ==
    [][args.batch_config
         => /\ call' # call
                  => /\ entry \in 1..Len(extractions)
                     /\ call'.directory = CurrentEntry.path
            /\ Len(dispatched') > Len(dispatched)
                  => /\ entry \in 1..Len(extractions)
                     /\ IsPrefix(CurrentEntry.path,
                                 dispatched'[Len(dispatched')].path)
            /\ fs' # fs
                  => /\ entry \in 1..Len(extractions)
                     /\ pc \in {"extract_archive", "remove_archive"}
                     /\ IsPrefix(CurrentEntry.path, archive_files[idx])]_vars

\* a batch run given the positional path r, whose entries name r/d alone,
\* has extracted and deleted an archive of r/d and left r/a.zip alone
C25_Witness ==
    /\ Returned /\ ~Cancelled /\ args.batch_config
    /\ args.path = Root
    /\ \A k \in 1..Len(extractions) : extractions[k].path = DirD
    /\ \E k \in 1..Len(log) : log[k].ev = "removed"
    /\ \E d \in extracted : IsPrefix(DirD, d)
    /\ FileAZip \in files
    /\ Root \o <<NameA>> \notin dirs

\* C26: in batch mode with --dry-run on the command line no step changes
\* the file system: no entry creates an output directory, extracts or
\* deletes an archive.
C26_CliDryRunInBatch ==
    [][(args.batch_config /\ args.dry_run) => fs' = fs]_vars

\* C27: the archives dispatched by one call have pairwise different
\* output directories.
C27_DistinctOutputDirs ==
    \A j, k \in 1..Len(dispatched) :
       dispatched[j].path # dispatched[k].path
          => dispatched[j].output_dir # dispatched[k].output_dir

\* C28: the dispatch of an archive that is refused before any extraction
\* is attempted, for its extension or for the unavailable 7z backend,
\* leaves the file system as it was.
C28_RefusedDispatchNoEffect ==
    [][(/\ Len(log') > Len(log)
        /\ log'[Len(log')].ev \in {"unsupported", "no_7z_method"})
          => fs' = fs]_vars

\* C29: in batch mode the run-level messages between two entries, and
\* the call of an entry that declares no log_file, are logged to the
\* destination set up by main from the command line.
C29_EntryLogFileLocal ==
    args.batch_config
       => /\ pc = "batch_entry" => file_handler = args.log_file
          /\ (/\ pc \in BulkPcs
              /\ CurrentEntry.log_file = NoLog) => file_handler = args.log_file

\* C30: a run of the Graylog checker executes Web Interface, OpenSearch,
\* Syslog UDP and GELF UDP in this order, each once and whatever the
\* earlier ones returned; a run that is not interrupted ends after all
\* four with 0 when all four succeeded and with 1 otherwise, an
\* interrupted run ends with 130.
C30_AllFourTestsAndExit ==
    LET order == <<"Web Interface", "OpenSearch", "Syslog UDP", "GELF UDP">>
        run == checker.detailed_results
    IN /\ Len(run) <= Len(order)
       /\ Len(checker.results) = Len(run)
       /\ \A k \in 1..Len(run) :
             /\ run[k].test = order[k]
             /\ run[k].success = (order[k] \in checker.passes)
             /\ checker.results[k] = run[k].success
       /\ checker.pc = "done"
             => \/ checker.exit_code = CheckerInterrupted
                \/ /\ Len(run) = Len(order)
                   /\ checker.exit_code =
                         IF \A k \in 1..Len(order) : run[k].success
                         THEN CheckerOk ELSE CheckerFailed
       /\ checker.pc # "done" => checker.exit_code = -1

\* a run whose first three tests failed went on to GELF UDP, which
\* succeeded, and ended with 1
C30_Witness ==
    /\ checker.pc = "done"
    /\ checker.exit_code = CheckerFailed
    /\ Len(checker.detailed_results) = 4
    /\ ~checker.detailed_results[1].success
    /\ checker.detailed_results[4] = [test |-> "GELF UDP", success |-> TRUE]

====
